---- MODULE Spec2Model ----
(***************************************************************************)
(* A model of tensorrt_llm/models/phi3/phi3small/convert.py: the weight    *)
(* layout transformation (shuffle_qkv_weights) and the tensor-parallel     *)
(* sharding (split, split_qkv_tp, split_embedding, get_tllm_linear_weight, *)
(* split_weights_tp).                                                      *)
(*                                                                         *)
(* A tensor is a record [tag, shape, data]: shape is the sequence of its   *)
(* dimension sizes and data its elements in row-major order, which is the  *)
(* logical order every torch operation used by the source is defined on.   *)
(* A call that raises is the value Err(<exception name>); None is its own  *)
(* tag.  Elements are integers; the source never computes on elements, it  *)
(* only moves them, so distinct integers per element make every move       *)
(* visible.  dtype is left out: convert_hf_weights (line 253) has already  *)
(* cast every tensor to the dtype that lines 120/124 cast to.              *)
(***************************************************************************)
EXTENDS Integers, Sequences, FiniteSets, TLC

VARIABLES
    pc,       \* position of the driver: "start", "loop", "post", "done", "raised"
    call,     \* the arguments of the function under study (config, args, tensors)
    ret,      \* the values returned so far, one per call (one per rank)
    weights,  \* the parameter mapping split_weights_tp updates in place
    pending   \* layer ids whose loop iteration has not run yet

vars == <<pc, call, ret, weights, pending>>

-----------------------------------------------------------------------------
(* Bounds of the model.                                                    *)

MaxHidden == 4
MaxCols == 3
MaxDim == 4
MaxTp == 3
MaxLayers == 3
MaxLayerHidden == 2
IntermediateSize == 2
MaxVocab == 2

-----------------------------------------------------------------------------
(* torch tensors and the torch operations the source uses.                 *)

\* data is held as a sequence (\o <<>> turns a function on 1..n into one).
T(shape, data) == [tag |-> "ok", shape |-> shape, data |-> data \o <<>>]
Err(e) == [tag |-> e, shape |-> <<>>, data |-> <<>>]
None == Err("None")
IsOk(t) == t.tag = "ok"

Min(a, b) == IF a < b THEN a ELSE b

\* F applied to the value of v, v being evaluated once (a LET that is strict).
With(v, F(_)) == CHOOSE r \in {F(x) : x \in {v}} : TRUE

RECURSIVE Prod(_)
Prod(s) == IF s = <<>> THEN 1 ELSE Head(s) * Prod(Tail(s))

\* Python's index normalisation: a negative index counts from the end.
PyIndex(i, n) == IF i < 0 THEN n + i ELSE i

\* tensor.dim()
dim(t) == Len(t.shape)

\* Product of the sizes before / after dimension d (0-based, as in torch).
Outer(shape, d) == Prod(SubSeq(shape, 1, d))
Inner(shape, d) == Prod(SubSeq(shape, d + 2, Len(shape)))

\* tensor.narrow(d, start, len): the slice start:start+len of dimension d.
narrow(tensor, d, start, len) ==
    With(tensor, LAMBDA t :
      IF ~IsOk(t) THEN t
      ELSE With(<<t.shape[d + 1], Inner(t.shape, d), Outer(t.shape, d)>>,
             LAMBDA s :
               LET n == s[1]
                   inner == s[2]
                   outer == s[3]
               IN T([t.shape EXCEPT ![d + 1] = len],
                    [i \in 1..(outer * len * inner) |->
                       LET z == i - 1
                           o == z \div (len * inner)
                           r == z % (len * inner)
                           j == r \div inner
                           c == r % inner
                       IN t.data[((o * n + start + j) * inner + c) + 1]])))

\* tensor[..., i, ...] at dimension d: the slice at index i, dimension d dropped.
select(tensor, d, i) ==
    With(tensor, LAMBDA t :
      IF ~IsOk(t) THEN t
      ELSE T(SubSeq(t.shape, 1, d) \o SubSeq(t.shape, d + 2, Len(t.shape)),
             narrow(t, d, PyIndex(i, t.shape[d + 1]), 1).data))

\* tensor.reshape(shape): same elements in the same order; one entry may be -1.
reshape(tensor, new_shape) ==
    With(<<tensor, new_shape>>, LAMBDA a :
      LET t == a[1]
          shape == a[2]
          total == Len(t.data)
          known == Prod([k \in 1..Len(shape) |->
                           IF shape[k] = -1 THEN 1 ELSE shape[k]])
          s == [k \in 1..Len(shape) |->
                  IF shape[k] = -1 THEN total \div known ELSE shape[k]]
      IN IF ~IsOk(t) THEN t
         ELSE IF known = 0 \/ Prod(s) # total
         THEN Err("RuntimeError")
         ELSE T(s, t.data))

\* tensor.unsqueeze(d): a dimension of size 1 inserted at position d.
unsqueeze(tensor, d) ==
    With(tensor, LAMBDA t :
      IF ~IsOk(t) THEN t
      ELSE T(SubSeq(t.shape, 1, d) \o <<1>> \o SubSeq(t.shape, d + 1, Len(t.shape)),
             t.data))

\* tensor.squeeze(): every dimension of size 1 removed.
squeeze(tensor) ==
    With(tensor, LAMBDA t :
      IF ~IsOk(t) THEN t
      ELSE T(SelectSeq(t.shape, LAMBDA n : n # 1), t.data))

RECURSIVE CatData(_)
CatData(ts) == IF ts = <<>> THEN <<>> ELSE Head(ts).data \o CatData(Tail(ts))

RECURSIVE SumDim0(_)
SumDim0(ts) == IF ts = <<>> THEN 0 ELSE Head(ts).shape[1] + SumDim0(Tail(ts))

\* torch.cat(ts, dim=0): the first failed operand's exception propagates.
cat(tensors) ==
    With(tensors, LAMBDA ts :
      IF \E k \in DOMAIN ts : ~IsOk(ts[k])
      THEN ts[CHOOSE k \in DOMAIN ts :
                 ~IsOk(ts[k]) /\ \A j \in 1..(k - 1) : IsOk(ts[j])]
      ELSE IF \E k \in DOMAIN ts : Tail(ts[k].shape) # Tail(ts[1].shape)
      THEN Err("RuntimeError")
      ELSE T(<<SumDim0(ts)>> \o Tail(ts[1].shape), CatData(ts)))

\* torch.chunk(t, chunks, dim): pieces of ceil(n / chunks) along dim, the last
\* one shorter and the list shorter than chunks when n is not a multiple.
chunk(tensor, chunks, d) ==
    With(tensor, LAMBDA t :
      LET n == t.shape[d + 1]
          split_size == (n + chunks - 1) \div chunks
          cnt == IF n = 0 THEN chunks ELSE (n + split_size - 1) \div split_size
      IN [k \in 1..cnt |->
            narrow(t, d, (k - 1) * split_size,
                   Min(split_size, n - (k - 1) * split_size))])

\* list[idx] for idx >= 0
Index(list, idx) ==
    With(list, LAMBDA l :
      IF idx + 1 \in DOMAIN l THEN l[idx + 1] ELSE Err("IndexError"))

\* tensor.t() of a 2-D tensor
transpose(tensor) ==
    With(tensor, LAMBDA t :
      IF ~IsOk(t) THEN t
      ELSE LET r == t.shape[1]
               c == t.shape[2]
           IN T(<<c, r>>,
                [i \in 1..(r * c) |->
                   t.data[((i - 1) % r) * c + ((i - 1) \div r) + 1]]))

\* A tensor of the given shape whose elements are base+1, base+2, ... in
\* row-major order: every element is distinct and none is 0.
Marked(shape, base) == T(shape, [i \in 1..Prod(shape) |-> base + i])

-----------------------------------------------------------------------------
(* shuffle_qkv_weights                                                     *)

shuffle_qkv_weights(w, config) ==
    LET num_heads == config.num_attention_heads
        num_kv_heads == config.num_kv_heads
        num_q_per_kv == num_heads \div num_kv_heads
        hidden_size == config.hidden_size
        head_dim == hidden_size \div num_heads
        input_shape == w.shape
        w1 == IF dim(w) < 2 THEN unsqueeze(w, 1) ELSE w
        w2 == reshape(w1, <<num_kv_heads, num_q_per_kv + 2, head_dim,
                            w1.shape[Len(w1.shape)]>>)
        q == narrow(w2, 1, 0, PyIndex(-2, num_q_per_kv + 2))
        k == select(w2, 1, -2)
        v == select(w2, 1, -1)
        q2 == reshape(q, <<-1, q.shape[3], q.shape[4]>>)
        w3 == cat(<<q2, k, v>>)
        w4 == reshape(w3, <<-1, w3.shape[3]>>)
        w5 == squeeze(w4)
    IN IF ~IsOk(w2) THEN w2
       ELSE IF input_shape = w5.shape THEN w5 ELSE Err("AssertionError")

\* The configs of the data model's invariant: num_attention_heads divisible by
\* num_kv_heads and hidden_size divisible by num_attention_heads.
Configs ==
    {c \in [num_attention_heads : 1..MaxHidden, num_kv_heads : 1..MaxHidden,
            hidden_size : 1..MaxHidden] :
        /\ c.num_attention_heads % c.num_kv_heads = 0
        /\ c.hidden_size % c.num_attention_heads = 0}

HeadDim(c) == c.hidden_size \div c.num_attention_heads
QPerKv(c) == c.num_attention_heads \div c.num_kv_heads
QkvRows(c) == (c.num_attention_heads + 2 * c.num_kv_heads) * HeadDim(c)

InitShuffle ==
    /\ pc = "start"
    /\ \E c \in Configs, cols \in 0..MaxCols :
          call = [config |-> c,
                  weights |-> IF cols = 0
                              THEN Marked(<<QkvRows(c)>>, 0)
                              ELSE Marked(<<QkvRows(c), cols>>, 0)]
    /\ ret = <<>>
    /\ weights = <<>>
    /\ pending = {}

Shuffle ==
    /\ pc = "start"
    /\ ret' = <<shuffle_qkv_weights(call.weights, call.config)>>
    /\ pc' = "done"
    /\ UNCHANGED <<call, weights, pending>>

SpecShuffle == InitShuffle /\ [][Shuffle]_vars

\* Row rho (0-based) of a 1-D or 2-D tensor, as the sequence of its elements.
Row(t, rho) ==
    LET width == IF dim(t) = 1 THEN 1 ELSE t.shape[2]
    IN SubSeq(t.data, rho * width + 1, (rho + 1) * width)

\* The input row that the layout comment of shuffle_qkv_weights (lines 24-29)
\* places at output row rho: queries of all groups, then keys, then values.
ShuffleSourceRow(c, rho) ==
    LET hd == HeadDim(c)
        m == QPerKv(c)
        nq == c.num_attention_heads * hd
        nk == c.num_kv_heads * hd
        within == rho % hd
    IN IF rho < nq
       THEN LET head == rho \div hd
            IN ((head \div m) * (m + 2) + (head % m)) * hd + within
       ELSE IF rho < nq + nk
       THEN (((rho - nq) \div hd) * (m + 2) + m) * hd + within
       ELSE (((rho - nq - nk) \div hd) * (m + 2) + m + 1) * hd + within

\* C1: shuffle_qkv_weights returns the input's rows permuted so that all query
\* rows come first (groups, heads and rows in original order), then all key
\* rows in group order, then all value rows in group order; no row is dropped,
\* duplicated or altered.  (Stated as the claim states it, for every valid
\* config and every fused weight or bias.)
C1_ShufflePermutes ==
    pc = "done" =>
        /\ IsOk(ret[1])
        /\ dim(ret[1]) = dim(call.weights)
        /\ ret[1].shape[1] = QkvRows(call.config)
        /\ \A rho \in 0..(QkvRows(call.config) - 1) :
              Row(ret[1], rho)
                 = Row(call.weights, ShuffleSourceRow(call.config, rho))

\* C7: shuffle_qkv_weights returns a tensor of exactly the input's shape and
\* rank for every valid config, the smallest included: its final assertion
\* never fails.
C7_ShuffleKeepsShape ==
    pc = "done" => IsOk(ret[1]) /\ ret[1].shape = call.weights.shape

\* The permutation itself, wherever the function returns (used to locate the
\* failure of C1 in the shape assertion and nowhere else).
ShufflePermutesWhenReturned ==
    (pc = "done" /\ IsOk(ret[1])) =>
        \A rho \in 0..(QkvRows(call.config) - 1) :
           Row(ret[1], rho)
              = Row(call.weights, ShuffleSourceRow(call.config, rho))

ShuffleRaisesOnlyOnOneColumn ==
    (pc = "done" /\ ~IsOk(ret[1])) =>
        (dim(call.weights) = 2 /\ call.weights.shape[2] = 1
           /\ ret[1].tag = "AssertionError")

-----------------------------------------------------------------------------
(* split                                                                   *)

\* A mutation of split: the dim argument is not forwarded to torch.chunk.
split_ignoring_dim(tensor, tp_size, idx, d) ==
    With(tensor, LAMBDA v :
      IF tp_size = 1 THEN v
      ELSE Index(chunk(v, tp_size, 0), idx))

split(tensor, tp_size, idx, d) ==
    With(tensor, LAMBDA v :
      IF tp_size = 1 THEN v
      ELSE IF Len(v.shape) = 1
           THEN Index(chunk(v, tp_size, 0), idx)
           ELSE Index(chunk(v, tp_size, d), idx))

split_matrix_tp(v, tensor_parallel, rank, d) == split(v, tensor_parallel, rank, d)

InitSplit ==
    /\ pc = "start"
    /\ \E r \in 1..MaxDim, c \in 0..MaxDim, tp \in 1..MaxTp, d \in {0, 1} :
          call = [v |-> IF c = 0 THEN Marked(<<r>>, 0) ELSE Marked(<<r, c>>, 0),
                  tp_size |-> tp,
                  dim |-> d]
    /\ ret = <<>>
    /\ weights = <<>>
    /\ pending = {}

\* One process per rank calls split with its own rank (spec section 5).
SplitRank ==
    /\ pc = "start"
    /\ ret' = Append(ret, split(call.v, call.tp_size, Len(ret), call.dim))
    /\ pc' = IF Len(ret') = call.tp_size THEN "done" ELSE "start"
    /\ UNCHANGED <<call, weights, pending>>

SpecSplit == InitSplit /\ [][SplitRank]_vars

\* The axis split partitions: the only axis of a 1-D tensor.
SplitAxis == IF dim(call.v) = 1 THEN 0 ELSE call.dim
SplitAxisSize == call.v.shape[SplitAxis + 1]

\* Element (i, j) of a 2-D tensor, element i of a 1-D tensor (j ignored).
At(t, i, j) == IF dim(t) = 1 THEN t.data[i + 1] ELSE t.data[i * t.shape[2] + j + 1]

\* The shards, concatenated in rank order along axis, are x: all shards have
\* the size n / tp along axis, x's size elsewhere, and x's elements in place.
Reconstructs(shards, x, axis, tp) ==
    LET n == x.shape[axis + 1]
        sz == n \div tp
        rows == x.shape[1]
        cols == IF dim(x) = 1 THEN 1 ELSE x.shape[2]
    IN /\ Len(shards) = tp
       /\ \A r \in 1..tp :
             /\ IsOk(shards[r])
             /\ shards[r].shape = [x.shape EXCEPT ![axis + 1] = sz]
       /\ \A i \in 0..(rows - 1), j \in 0..(cols - 1) :
             LET p == IF axis = 0 THEN i ELSE j
                 s == shards[(p \div sz) + 1]
             IN At(x, i, j) = IF axis = 0 THEN At(s, i % sz, j)
                                          ELSE At(s, i, j % sz)

\* C2: when x.shape[axis] is divisible by tp_size, split returns for each rank
\* the rank-th contiguous equal-sized partition of x along the axis, and the
\* results for ranks 0..tp_size-1 concatenated along the axis are x (a 1-D
\* tensor is split along its only axis whatever the axis argument is).
C2_SplitPartitions ==
    (pc = "done" /\ SplitAxisSize % call.tp_size = 0) =>
        Reconstructs(ret, call.v, SplitAxis, call.tp_size)

C2_Witness ==
    /\ pc = "done"
    /\ call.tp_size = 2
    /\ dim(call.v) = 2
    /\ call.dim = 1
    /\ call.v.shape = <<3, 4>>
    /\ ret[2].data = <<3, 4, 7, 8, 11, 12>>

\* C6: splitting a dimension that is not divisible by tp_size is a fatal error
\* raised immediately and never yields a shard, for every rank.
C6_IndivisibleSplitRaises ==
    (SplitAxisSize % call.tp_size # 0) =>
        \A r \in DOMAIN ret : ~IsOk(ret[r])

-----------------------------------------------------------------------------
(* split_embedding                                                         *)

\* The name pad_vocab_size is bound nowhere in convert.py: the module imports
\* torch, QuantAlgo and str_dtype_to_torch (lines 16-20) and defines no such
\* function, so evaluating the call at line 110 raises NameError.
pad_vocab_size(vocab_size, tp_size) == Err("NameError")

split_embedding(param, tp_size, tp_rank, use_parallel_embedding, sharding_dim) ==
    IF param = None THEN None
    ELSE IF ~use_parallel_embedding THEN param
    ELSE LET vocab_size == param.shape[1]
             hidden_size == param.shape[2]
         IN IF sharding_dim = 0
            THEN IF vocab_size % tp_size # 0
                 THEN pad_vocab_size(vocab_size, tp_size)
                 ELSE IF hidden_size % tp_size = 0
                      THEN split(param, tp_size, tp_rank, sharding_dim)
                      ELSE Err("AssertionError")
            ELSE split(param, tp_size, tp_rank, sharding_dim)

InitEmbed ==
    /\ pc = "start"
    /\ \E v \in 0..MaxDim, h \in 1..MaxDim, tp \in 1..MaxTp,
          par \in BOOLEAN, d \in {0, 1} :
          call = [param |-> IF v = 0 THEN None ELSE Marked(<<v, h>>, 0),
                  tp_size |-> tp,
                  use_parallel_embedding |-> par,
                  sharding_dim |-> d]
    /\ ret = <<>>
    /\ weights = <<>>
    /\ pending = {}

EmbedRank ==
    /\ pc = "start"
    /\ ret' = Append(ret, split_embedding(call.param, call.tp_size, Len(ret),
                                          call.use_parallel_embedding,
                                          call.sharding_dim))
    /\ pc' = IF Len(ret') = call.tp_size THEN "done" ELSE "start"
    /\ UNCHANGED <<call, weights, pending>>

SpecEmbed == InitEmbed /\ [][EmbedRank]_vars

\* The embedding is sharded along the vocabulary axis.
VocabSharded ==
    /\ IsOk(call.param)
    /\ call.use_parallel_embedding
    /\ call.sharding_dim = 0

\* param followed by zero rows up to the next multiple of tp rows.
ZeroPadded(param, tp) ==
    LET v == param.shape[1]
        h == param.shape[2]
        padded == ((v + tp - 1) \div tp) * tp
    IN T(<<padded, h>>, param.data \o [i \in 1..((padded - v) * h) |-> 0])

\* C3: sharding along the vocabulary axis with a vocabulary size that is not a
\* multiple of tp_size pads zero rows at the end up to the next multiple:
\* every rank gets a shard of exactly ceil(V / tp_size) rows, and the shards
\* in rank order are the original rows followed by the zero rows.
C3_VocabPadded ==
    (pc = "done" /\ VocabSharded /\ call.param.shape[1] % call.tp_size # 0) =>
        Reconstructs(ret, ZeroPadded(call.param, call.tp_size), 0, call.tp_size)

\* C5: when the vocabulary size is a multiple of tp_size, sharding along the
\* vocabulary axis returns for every rank and every embedding, whatever its
\* hidden size, the shard split(param, tp_size, rank, 0); nothing is raised.
C5_VocabDivisibleIsSplit ==
    (VocabSharded /\ call.param.shape[1] % call.tp_size = 0) =>
        \A r \in DOMAIN ret :
           /\ IsOk(ret[r])
           /\ ret[r] = split(call.param, call.tp_size, r - 1, 0)

-----------------------------------------------------------------------------
(* get_tllm_linear_weight                                                  *)

\* dict[key] = value
Put(map, key, value) == (key :> value) @@ map

\* dict.update(other)
Update(map, other) == other @@ map

RECURSIVE SeqMax(_)
SeqMax(s) ==
    IF Len(s) = 1 THEN s[1]
    ELSE LET m == SeqMax(Tail(s)) IN IF s[1] > m THEN s[1] ELSE m

\* torch.ops.trtllm.symmetric_quantize_last_axis_of_batched_matrix: the
\* external kernel quantize(tensor, type) -> (packed, scale).  The packed
\* tensor keeps which elements were packed and as what type; the scale has one
\* entry per channel of the last axis, decided by that channel's largest entry.
symmetric_quantize_last_axis_of_batched_matrix(tensor, quant_type) ==
    With(tensor, LAMBDA v :
      [packed |-> [tag |-> quant_type, shape |-> v.shape, data |-> v.data],
       scales |-> T(<<v.shape[2]>>,
                    [j \in 1..v.shape[2] |->
                       SeqMax([i \in 1..v.shape[1] |-> At(v, i - 1, j - 1)])])])

\* A mutation of get_tllm_linear_weight: the plain branch stores the
\* transposed weight, as the quantized branch does.
get_tllm_linear_weight_transposing(weight, prefix, bias, use_weight_only, plugin_weight_only_quant_type) ==
    LET results1 == Put(<<>>, prefix \o ".weight", transpose(weight))
    IN IF bias # None THEN Put(results1, prefix \o ".bias", bias) ELSE results1

get_tllm_linear_weight(weight, prefix, bias, use_weight_only, plugin_weight_only_quant_type) ==
    LET results0 == <<>>
        results1 ==
            IF use_weight_only
            THEN With(symmetric_quantize_last_axis_of_batched_matrix(
                          transpose(weight), plugin_weight_only_quant_type),
                   LAMBDA quantized :
                     Put(Put(results0, prefix \o ".weight", quantized.packed),
                         prefix \o ".per_channel_scale", quantized.scales))
            ELSE Put(results0, prefix \o ".weight", weight)
    IN With(bias, LAMBDA b :
         IF b # None THEN Put(results1, prefix \o ".bias", b) ELSE results1)

\* plugin_weight_only_quant_type as split_weights_tp chooses it (lines 161-166)
QuantType(use_weight_only, weight_only_precision) ==
    IF use_weight_only /\ weight_only_precision = "int8" THEN "torch.int8"
    ELSE IF use_weight_only /\ weight_only_precision = "int4" THEN "torch.quint4x2"
    ELSE "None"

InitLinear ==
    /\ pc = "start"
    /\ \E r \in 1..MaxDim, c \in 1..MaxDim, b \in BOOLEAN,
          pre \in {"transformer.layers.0.attention.dense",
                   "transformer.layers.1.mlp.fc"},
          quant \in {"off", "int8", "int4"} :
          call = [weight |-> Marked(<<r, c>>, 0),
                  prefix |-> pre,
                  bias |-> IF b THEN Marked(<<r>>, 100) ELSE None,
                  use_weight_only |-> quant # "off",
                  weight_only_precision |-> quant]
    /\ ret = <<>>
    /\ weights = <<>>
    /\ pending = {}

PackLinear ==
    /\ pc = "start"
    /\ ret' = <<get_tllm_linear_weight(
                    call.weight, call.prefix, call.bias, call.use_weight_only,
                    QuantType(call.use_weight_only, call.weight_only_precision))>>
    /\ pc' = "done"
    /\ UNCHANGED <<call, weights, pending>>

SpecLinear == InitLinear /\ [][PackLinear]_vars

\* The keys the plain branch is to return: .weight, and .bias iff a bias was given.
PlainKeys ==
    {call.prefix \o ".weight"}
       \cup (IF call.bias # None THEN {call.prefix \o ".bias"} ELSE {})

\* C8 as stated: with quantization disabled the mapping holds exactly
\* prefix.weight with the TRANSPOSED input weight, prefix.bias with the input
\* bias iff a bias was supplied, and no other key; the inputs are not mutated.
C8_PlainWeightTransposed ==
    [][(pc' = "done" /\ ~call.use_weight_only) =>
          /\ DOMAIN ret'[1] = PlainKeys
          /\ ret'[1][call.prefix \o ".weight"] = transpose(call.weight)
          /\ (call.bias # None => ret'[1][call.prefix \o ".bias"] = call.bias)
          /\ call' = call]_vars

\* C8 amended: with quantization disabled the mapping holds exactly
\* prefix.weight with the input weight as given (NOT transposed), prefix.bias
\* with the input bias iff a bias was supplied, and no other key; the inputs
\* are not mutated.
C8_PlainWeightAsGiven ==
    [][(pc' = "done" /\ ~call.use_weight_only) =>
          /\ DOMAIN ret'[1] = PlainKeys
          /\ ret'[1][call.prefix \o ".weight"] = call.weight
          /\ (call.bias # None => ret'[1][call.prefix \o ".bias"] = call.bias)
          /\ call' = call]_vars

C8_Witness ==
    /\ pc = "done"
    /\ ~call.use_weight_only
    /\ call.bias # None
    /\ call.weight.shape = <<2, 3>>
    /\ DOMAIN ret[1] = {call.prefix \o ".weight", call.prefix \o ".bias"}
    /\ ret[1][call.prefix \o ".weight"].data = <<1, 2, 3, 4, 5, 6>>

-----------------------------------------------------------------------------
(* The fused QKV split of split_weights_tp                                 *)

\* A mutation of split_qkv_tp: the (3, n_hidden, n_hidden) view is split along
\* its first axis instead of the hidden axis.
split_qkv_tp_along_first(v, n_head, n_hidden, tensor_parallel, rank) ==
    LET v1 == reshape(v, <<3, n_hidden, n_hidden>>)
        split_v == split(v1, tensor_parallel, rank, 0)
    IN reshape(split_v, <<3 * (n_hidden \div tensor_parallel), n_hidden>>)

split_qkv_tp(v, n_head, n_hidden, tensor_parallel, rank) ==
    LET v1 == reshape(v, <<3, n_hidden, n_hidden>>)
        split_v == split(v1, tensor_parallel, rank, 1)
    IN reshape(split_v, <<3 * (n_hidden \div tensor_parallel), n_hidden>>)

split_qkv_bias_tp(v, n_head, n_hidden, tensor_parallel, rank) ==
    LET v1 == reshape(v, <<3, n_hidden>>)
        split_v == split(v1, tensor_parallel, rank, 1)
    IN reshape(split_v, <<3 * (n_hidden \div tensor_parallel)>>)

\* split(x, tp_size, rank) of an operand that may already have raised
SplitRows(x, tp_size, rank) == IF IsOk(x) THEN split(x, tp_size, rank, 0) ELSE x

\* Lines 180-189: the grouped-query split of the fused weight.
split_qkv_gqa_weight(qkv_weight, num_heads, num_kv_heads, hidden_size, tp_size, rank) ==
    LET num_q_per_kv == num_heads \div num_kv_heads
        w == reshape(qkv_weight, <<num_q_per_kv + 2, -1, hidden_size>>)
        q == reshape(narrow(w, 0, 0, num_q_per_kv), <<-1, hidden_size>>)
        k == reshape(narrow(w, 0, num_q_per_kv, 1), <<-1, hidden_size>>)
        v == reshape(narrow(w, 0, num_q_per_kv + 1, 1), <<-1, hidden_size>>)
    IN cat(<<SplitRows(q, tp_size, rank), SplitRows(k, tp_size, rank),
             SplitRows(v, tp_size, rank)>>)

\* Lines 191-196: the grouped-query split of the fused bias.
split_qkv_gqa_bias(qkv_bias, num_heads, num_kv_heads, tp_size, rank) ==
    LET num_q_per_kv == num_heads \div num_kv_heads
        b == reshape(qkv_bias, <<num_q_per_kv + 2, -1>>)
        q == reshape(narrow(b, 0, 0, num_q_per_kv), <<-1>>)
        k == reshape(narrow(b, 0, num_q_per_kv, 1), <<-1>>)
        v == reshape(narrow(b, 0, num_q_per_kv + 1, 1), <<-1>>)
    IN cat(<<SplitRows(q, tp_size, rank), SplitRows(k, tp_size, rank),
             SplitRows(v, tp_size, rank)>>)

\* Lines 154-158 and 179-201: the path is chosen by mha_mode.
split_qkv(qkv_weight, qkv_bias, config, tp_size, rank) ==
    LET num_heads == config.num_attention_heads
        num_kv_heads == config.num_kv_heads
        hidden_size == config.hidden_size
        mha_mode == num_heads = num_kv_heads
    IN IF ~mha_mode
       THEN [weight |-> split_qkv_gqa_weight(qkv_weight, num_heads, num_kv_heads,
                                             hidden_size, tp_size, rank),
             bias |-> split_qkv_gqa_bias(qkv_bias, num_heads, num_kv_heads,
                                         tp_size, rank)]
       ELSE [weight |-> split_qkv_tp(qkv_weight, num_heads, hidden_size,
                                     tp_size, rank),
             bias |-> split_qkv_bias_tp(qkv_bias, num_heads, hidden_size,
                                        tp_size, rank)]

\* The fused weight and bias as shuffle_qkv_weights leaves them: the query rows
\* of all heads, then the key rows, then the value rows.  Row rho of the weight
\* holds rho * hidden_size + 1 ... and entry rho of the bias holds 1000 + rho + 1.
InitQkv ==
    /\ pc = "start"
    /\ \E c \in Configs, tp \in 1..MaxTp :
          call = [config |-> c,
                  tp_size |-> tp,
                  qkv_weight |-> Marked(<<QkvRows(c), c.hidden_size>>, 0),
                  qkv_bias |-> Marked(<<QkvRows(c)>>, 1000)]
    /\ ret = <<>>
    /\ weights = <<>>
    /\ pending = {}

QkvRank ==
    /\ pc = "start"
    /\ ret' = Append(ret, split_qkv(call.qkv_weight, call.qkv_bias, call.config,
                                    call.tp_size, Len(ret)))
    /\ pc' = IF Len(ret') = call.tp_size THEN "done" ELSE "start"
    /\ UNCHANGED <<call, weights, pending>>

SpecQkv == InitQkv /\ [][QkvRank]_vars

\* C4: with num_attention_heads = num_kv_heads and tp_size dividing
\* hidden_size, the grouped-query code path yields for every rank exactly the
\* weight shard and the bias shard of the multi-head code path (which is the
\* path split_weights_tp takes for such a config).
C4_GqaPathEqualsMhaPath ==
    (/\ call.config.num_attention_heads = call.config.num_kv_heads
     /\ call.config.hidden_size % call.tp_size = 0) =>
        \A r \in DOMAIN ret :
           /\ IsOk(ret[r].weight)
           /\ IsOk(ret[r].bias)
           /\ ret[r].weight
                 = split_qkv_gqa_weight(call.qkv_weight,
                       call.config.num_attention_heads, call.config.num_kv_heads,
                       call.config.hidden_size, call.tp_size, r - 1)
           /\ ret[r].bias
                 = split_qkv_gqa_bias(call.qkv_bias,
                       call.config.num_attention_heads, call.config.num_kv_heads,
                       call.tp_size, r - 1)

C4_Witness ==
    /\ pc = "done"
    /\ call.config = [num_attention_heads |-> 2, num_kv_heads |-> 2,
                      hidden_size |-> 4]
    /\ call.tp_size = 2
    /\ ret[2].bias.data = <<1003, 1004, 1007, 1008, 1011, 1012>>
    /\ ret[2].weight.shape = <<6, 4>>

\* The rows of the fused weight held by a shard (by their markers).
ShardRows(shard) ==
    {(shard.data[i] - 1) \div call.config.hidden_size : i \in DOMAIN shard.data}

\* The rows of query head h, of the key head and of the value head of group g.
QueryHeadRows(h) ==
    LET hd == HeadDim(call.config) IN (h * hd)..(h * hd + hd - 1)
KeyHeadRows(g) ==
    LET hd == HeadDim(call.config)
        base == call.config.num_attention_heads * hd
    IN (base + g * hd)..(base + g * hd + hd - 1)
ValueHeadRows(g) ==
    LET hd == HeadDim(call.config)
        base == (call.config.num_attention_heads + call.config.num_kv_heads) * hd
    IN (base + g * hd)..(base + g * hd + hd - 1)
QueryHeadsOf(g) ==
    LET m == QPerKv(call.config) IN (g * m)..(g * m + m - 1)
KvGroups == 0..(call.config.num_kv_heads - 1)

\* The shards hold whole heads only, and rank r holds the query heads, the key
\* head and the value head of the same set of kv groups, the sets partitioning
\* the kv groups.
WholeHeadShards ==
    /\ \A r \in DOMAIN ret : IsOk(ret[r].weight)
    /\ \A g \in KvGroups :
          \E r \in DOMAIN ret :
             /\ KeyHeadRows(g) \subseteq ShardRows(ret[r].weight)
             /\ ValueHeadRows(g) \subseteq ShardRows(ret[r].weight)
             /\ \A h \in QueryHeadsOf(g) :
                   QueryHeadRows(h) \subseteq ShardRows(ret[r].weight)
             /\ \A s \in DOMAIN ret :
                   s # r =>
                      /\ KeyHeadRows(g) \cap ShardRows(ret[s].weight) = {}
                      /\ ValueHeadRows(g) \cap ShardRows(ret[s].weight) = {}
                      /\ \A h \in QueryHeadsOf(g) :
                            QueryHeadRows(h) \cap ShardRows(ret[s].weight) = {}

GqaPath == call.config.num_attention_heads # call.config.num_kv_heads

\* C9: in the grouped-query path, whenever the query row count and the
\* key/value row count are each divisible by tp_size, every rank's shard
\* consists of whole heads only, rank r holding the query, key and value heads
\* of a set G_r of kv groups, the sets G_r partitioning the kv groups.
C9_RowDivisibleGivesWholeHeads ==
    (/\ pc = "done"
     /\ GqaPath
     /\ (call.config.num_attention_heads * HeadDim(call.config)) % call.tp_size = 0
     /\ (call.config.num_kv_heads * HeadDim(call.config)) % call.tp_size = 0) =>
        WholeHeadShards

\* What the code does guarantee: whole heads whenever tp_size divides
\* num_kv_heads (in either path).
WholeHeadsWhenTpDividesKvHeads ==
    (pc = "done" /\ call.config.num_kv_heads % call.tp_size = 0) => WholeHeadShards

-----------------------------------------------------------------------------
(* split_weights_tp: the per-layer loop and the steps after it             *)

\* A mutation of layer_prefix: the layer id is not part of the prefix.
layer_prefix_without_id(layer_id) == "transformer.layers.0."

\* Line 174
layer_prefix(layer_id) == "transformer.layers." \o ToString(layer_id) \o "."

\* Lines 119-128: both entries are read from the mapping.
get_weight_and_bias(w, prefix) ==
    [weight |-> w[prefix \o ".weight"], bias |-> w[prefix \o ".bias"]]

\* Lines 169-171: the helper closing over the quantization arguments.
get_weight(weight, prefix, bias, args) ==
    get_tllm_linear_weight(weight, prefix, bias, args.use_weight_only,
        QuantType(args.use_weight_only, args.weight_only_precision))

\* The state of split_weights_tp after a step: the mapping, and whether the
\* step raised (which ends split_weights_tp with the mapping as it then is).
Went(w) == [weights |-> w, raised |-> FALSE]
Raised(w) == [weights |-> w, raised |-> TRUE]

\* The next step F runs on the mapping a step leaves unless the step raised.
Then(step, F(_)) ==
    With(step, LAMBDA s : IF s.raised THEN s ELSE F(s.weights))

\* Lines 176-203: attention.qkv
qkv_step(w, layer_id, config, args, rank) ==
    LET prefix == layer_prefix(layer_id) \o "attention.qkv"
    IN With(get_weight_and_bias(w, prefix), LAMBDA qkv :
        With(split_qkv(qkv.weight, qkv.bias, config, args.tp_size, rank),
          LAMBDA s :
            IF ~IsOk(s.weight) \/ ~IsOk(s.bias)
            THEN Raised(w)
            ELSE Went(Update(w, get_weight(s.weight, prefix, s.bias, args)))))

\* Lines 205-209: attention.dense, split along axis 1, the bias kept whole
dense_step(w, layer_id, args, rank) ==
    LET prefix == layer_prefix(layer_id) \o "attention.dense"
    IN With(get_weight_and_bias(w, prefix), LAMBDA dense :
        With(split_matrix_tp(dense.weight, args.tp_size, rank, 1),
          LAMBDA split_v :
            IF ~IsOk(split_v)
            THEN Raised(w)
            ELSE Went(Update(w, get_weight(split_v, prefix, dense.bias, args)))))

\* Lines 211-215: mlp.fc, weight and bias split along axis 0
fc_step(w, layer_id, args, rank) ==
    LET prefix == layer_prefix(layer_id) \o "mlp.fc"
    IN With(get_weight_and_bias(w, prefix), LAMBDA fc :
        With(<<split_matrix_tp(fc.weight, args.tp_size, rank, 0),
               split_matrix_tp(fc.bias, args.tp_size, rank, 0)>>,
          LAMBDA s :
            IF ~IsOk(s[1]) \/ ~IsOk(s[2])
            THEN Raised(w)
            ELSE Went(Update(w, get_weight(s[1], prefix, s[2], args)))))

\* Lines 217-221: mlp.proj, split along axis 1, the bias kept whole
proj_step(w, layer_id, args, rank) ==
    LET prefix == layer_prefix(layer_id) \o "mlp.proj"
    IN With(get_weight_and_bias(w, prefix), LAMBDA proj :
        With(split_matrix_tp(proj.weight, args.tp_size, rank, 1),
          LAMBDA split_v :
            IF ~IsOk(split_v)
            THEN Raised(w)
            ELSE Went(Update(w, get_weight(split_v, prefix, proj.bias, args)))))

\* Lines 174-221: one iteration of the loop.
layer_iteration(w, layer_id, config, args, rank) ==
    Then(Then(Then(qkv_step(w, layer_id, config, args, rank),
                   LAMBDA w1 : dense_step(w1, layer_id, args, rank)),
              LAMBDA w2 : fc_step(w2, layer_id, args, rank)),
         LAMBDA w3 : proj_step(w3, layer_id, args, rank))

\* Lines 223-228: the embedding (parallel embedding is left at its default,
\* False) and the lm_head.
after_loop(w, args, rank) ==
    With(Put(w, "transformer.vocab_embedding.weight",
             split_embedding(w["transformer.vocab_embedding.weight"],
                             args.tp_size, rank, FALSE, 0)),
      LAMBDA w1 :
        With(split_matrix_tp(w1["lm_head.weight"], args.tp_size, rank, 0),
          LAMBDA head :
            IF ~IsOk(head)
            THEN Raised(w1)
            ELSE Went(Put(w1, "lm_head.weight", head))))

\* Line 173: the loop as the source runs it, layer_id = from, from+1, ...
RECURSIVE layer_loop(_, _, _, _, _)
layer_loop(w, from, config, args, rank) ==
    IF from >= config.num_hidden_layers
    THEN Went(w)
    ELSE Then(layer_iteration(w, from, config, args, rank),
              LAMBDA w1 : layer_loop(w1, from + 1, config, args, rank))

\* The entries of one layer in the mapping convert_hf_weights builds (lines
\* 239-261): name -> shape, for a config.
LayerShapes(c) ==
    [attention_qkv_weight |-> <<QkvRows(c), c.hidden_size>>,
     attention_qkv_bias |-> <<QkvRows(c)>>,
     attention_dense_weight |-> <<c.hidden_size, c.hidden_size>>,
     attention_dense_bias |-> <<c.hidden_size>>,
     mlp_fc_weight |-> <<c.intermediate_size, c.hidden_size>>,
     mlp_fc_bias |-> <<c.intermediate_size>>,
     mlp_proj_weight |-> <<c.hidden_size, c.intermediate_size>>,
     mlp_proj_bias |-> <<c.hidden_size>>,
     input_layernorm_weight |-> <<c.hidden_size>>,
     post_layernorm_weight |-> <<c.hidden_size>>]

LayerEntryNames ==
    <<"attention.qkv.weight", "attention.qkv.bias",
      "attention.dense.weight", "attention.dense.bias",
      "mlp.fc.weight", "mlp.fc.bias", "mlp.proj.weight", "mlp.proj.bias",
      "input_layernorm.weight", "post_layernorm.weight">>

LayerEntryShape(c, n) ==
    LET s == LayerShapes(c)
    IN <<s.attention_qkv_weight, s.attention_qkv_bias, s.attention_dense_weight,
         s.attention_dense_bias, s.mlp_fc_weight, s.mlp_fc_bias,
         s.mlp_proj_weight, s.mlp_proj_bias, s.input_layernorm_weight,
         s.post_layernorm_weight>>[n]

\* The renamed mapping handed to split_weights_tp: every element of every
\* tensor is distinct (layer l, entry n starts at 1000 * l + 100 * n).
RenamedWeights(c) ==
    LET layerKeys == {<<l, n>> : l \in 0..(c.num_hidden_layers - 1),
                                 n \in DOMAIN LayerEntryNames}
        keyOf(ln) == "transformer.layers." \o ToString(ln[1]) \o "."
                        \o LayerEntryNames[ln[2]]
        layers == [k \in {keyOf(ln) : ln \in layerKeys} |->
                     LET ln == CHOOSE x \in layerKeys : keyOf(x) = k
                     IN Marked(LayerEntryShape(c, ln[2]),
                               1000 * ln[1] + 100 * ln[2])]
        rest == [k \in {"transformer.vocab_embedding.weight", "lm_head.weight",
                        "transformer.ln_f.weight"} |->
                   IF k = "transformer.ln_f.weight"
                   THEN Marked(<<c.hidden_size>>, 9000)
                   ELSE Marked(<<c.vocab_size, c.hidden_size>>, 9100)]
    IN Update(layers, rest)

LayerConfigs ==
    {[num_attention_heads |-> c.num_attention_heads,
      num_kv_heads |-> c.num_kv_heads,
      hidden_size |-> c.hidden_size,
      intermediate_size |-> IntermediateSize,
      vocab_size |-> v,
      num_hidden_layers |-> l] :
        c \in {x \in Configs : x.hidden_size <= MaxLayerHidden},
        v \in 1..MaxVocab, l \in 1..MaxLayers}

InitLayers ==
    /\ \E c \in LayerConfigs, tp \in 1..MaxTp, quant \in {"off", "int8", "int4"} :
          \E r \in 0..(tp - 1) :
             /\ call = [config |-> c,
                        args |-> [tp_size |-> tp,
                                  use_weight_only |-> quant # "off",
                                  weight_only_precision |-> quant],
                        rank |-> r]
             /\ weights = RenamedWeights(c)
             /\ pending = 0..(c.num_hidden_layers - 1)
    /\ pc = "loop"
    /\ ret = <<>>

\* One whole iteration of the loop, for any layer not yet done: the source
\* takes them in increasing order, the claim is about every order.
LayerIteration(i) ==
    /\ pc = "loop"
    /\ i \in pending
    /\ \E it \in {layer_iteration(weights, i, call.config, call.args, call.rank)} :
          /\ weights' = it.weights
          /\ pending' = pending \ {i}
          /\ pc' = IF it.raised THEN "raised"
                   ELSE IF pending' = {} THEN "post" ELSE "loop"
    /\ UNCHANGED <<call, ret>>

AfterLoop ==
    /\ pc = "post"
    /\ \E res \in {after_loop(weights, call.args, call.rank)} :
          /\ weights' = res.weights
          /\ pc' = IF res.raised THEN "post_raised" ELSE "done"
    /\ UNCHANGED <<call, ret, pending>>

NextLayers == (\E i \in pending : LayerIteration(i)) \/ AfterLoop

SpecLayers == InitLayers /\ [][NextLayers]_vars

\* The layers whose iteration has run.
Processed == (0..(call.config.num_hidden_layers - 1)) \ pending

\* The keys the claim allows the iteration of layer i to read and write.
TouchedKeys(i) ==
    {"transformer.layers." \o ToString(i) \o "." \o m \o e :
        m \in {"attention.qkv", "attention.dense", "mlp.fc", "mlp.proj"},
        e \in {".weight", ".bias", ".per_channel_scale"}}

\* Mappings a and b agree on key k: both lack it or both hold the same tensor.
AgreeOn(a, b, k) ==
    /\ (k \in DOMAIN a) <=> (k \in DOMAIN b)
    /\ (k \in DOMAIN a) => a[k] = b[k]

\* C10: the iteration of layer i reads and writes only the entries
\* 'transformer.layers.<i>.' attention.qkv / attention.dense / mlp.fc /
\* mlp.proj weight, bias and per_channel_scale: in every order of the
\* iterations, every entry outside the layers already run is as it was handed
\* in, every layer run holds what its iteration computes from the mapping as
\* handed in, and once the loop is over the mapping is the one the loop in the
\* source's order (0, 1, ...) produces.
C10_LayersIndependent ==
    LET orig == RenamedWeights(call.config)
    IN pc \in {"loop", "post", "raised"} =>
          /\ \A k \in (DOMAIN weights) \cup (DOMAIN orig) :
                (\A i \in Processed : k \notin TouchedKeys(i)) =>
                   AgreeOn(weights, orig, k) /\ k \in DOMAIN orig
          /\ pc # "raised" =>
                \A i \in Processed :
                   LET alone == layer_iteration(orig, i, call.config, call.args,
                                                call.rank).weights
                   IN \A k \in TouchedKeys(i) : AgreeOn(weights, alone, k)
          /\ pc = "post" =>
                weights = layer_loop(orig, 0, call.config, call.args,
                                     call.rank).weights

\* Layer 2 has been split before layer 0, with quantization on.
C10_Witness ==
    /\ pc = "loop"
    /\ call.config.num_hidden_layers = 3
    /\ pending = {0}
    /\ call.args.tp_size = 2
    /\ call.rank = 1
    /\ call.args.use_weight_only
    /\ weights["transformer.layers.2.mlp.fc.bias"].data = <<2602>>
    /\ weights["transformer.layers.0.mlp.fc.bias"].data = <<601, 602>>
    /\ "transformer.layers.2.mlp.fc.per_channel_scale" \in DOMAIN weights

====
